---------------------------- MODULE Spec2Model ----------------------------
(***************************************************************************)
(* The credit ledger of the calorie-estimation backend:                    *)
(* services/creditService.js over the User and CreditTransaction           *)
(* collections, and the code around it: the route handler that writes the  *)
(* counters itself (routes/userRoutes.js, POST /:id/reset-count), the      *)
(* history routes (routes/creditRoutes.js), the protect middleware and     *)
(* POST /api/estimate-calories (server.js), and the three paths that       *)
(* create an account.                                                      *)
(*                                                                         *)
(* Every await of the service is one store call; the store executes each   *)
(* call atomically, and the code between two awaits runs without           *)
(* interruption (a single-threaded event loop).  A call occupies one slot; *)
(* its pc names the store call it is waiting for.  The first store call of *)
(* an operation (findById) is made when the operation is called.           *)
(***************************************************************************)
EXTENDS Integers, Sequences, FiniteSets, TLC

VARIABLES
    users,      \* the User collection: id -> [present, apiCreditsTotal, apiCreditsUsed]
    log,        \* the CreditTransaction collection, in creation order
    procs,      \* the calls: slot -> position, arguments, local document, result
    faults,     \* number of store calls that have failed so far
    initial     \* the User collection of the initial state (history, never written)

vars == <<users, log, procs, faults, initial>>

----------------------------------------------------------------------------
(* Bounds of the model *)

NumProcs == 2
MaxFaults == 1

(* Program constants *)

DefaultCreditsTotal == 100
DefaultCreditsUsed == 0
MAX_CREDITS == 1000
DefaultCost == 1
DefaultHistoryLimit == 20
IosCreditsTotal == 100
IosCreditsUsed == 0
RouteHistoryLimit == 50

----------------------------------------------------------------------------
(* Identifiers.  ObjectIds are the well-formed ids; BadId is a string that  *)
(* does not cast to an ObjectId.                                            *)

ObjectIds == {"u1", "u2", "u3"}
BadId == "not-an-objectid"
IdInputs == ObjectIds \cup {BadId}
RegisteredIds == {"u1", "u2"}

Procs == 1..NumProcs
Amounts == {1, 2, 900, 950}
StartUsed == {0, 99}

EstimatePath == "/api/estimate-calories"

----------------------------------------------------------------------------
(* Documents *)

NoUser == [present |-> FALSE, apiCreditsTotal |-> 0, apiCreditsUsed |-> 0, isAdmin |-> FALSE]

NewUser ==
    [present |-> TRUE,
     apiCreditsTotal |-> DefaultCreditsTotal,
     apiCreditsUsed |-> DefaultCreditsUsed,
     isAdmin |-> FALSE]

(* A Mongoose document held by a call: the values it carries and the paths *)
(* modified since it was loaded or saved.                                  *)
NoDoc ==
    [found |-> FALSE, apiCreditsTotal |-> 0, apiCreditsUsed |-> 0, isAdmin |-> FALSE,
     dirty |-> {}]

LoadDoc(u) ==
    IF u.present
    THEN [found |-> TRUE, apiCreditsTotal |-> u.apiCreditsTotal,
          apiCreditsUsed |-> u.apiCreditsUsed, isAdmin |-> u.isAdmin, dirty |-> {}]
    ELSE NoDoc

(* doc.path = value: a path is marked modified only when the value differs *)
SetUsed(doc, v) ==
    IF v = doc.apiCreditsUsed THEN doc
    ELSE [doc EXCEPT !.apiCreditsUsed = v, !.dirty = @ \cup {"apiCreditsUsed"}]

SetTotal(doc, v) ==
    IF v = doc.apiCreditsTotal THEN doc
    ELSE [doc EXCEPT !.apiCreditsTotal = v, !.dirty = @ \cup {"apiCreditsTotal"}]

(* doc.save(): an update that sets the modified paths only *)
SaveDoc(u, doc) ==
    [u EXCEPT
       !.apiCreditsTotal = IF "apiCreditsTotal" \in doc.dirty THEN doc.apiCreditsTotal ELSE @,
       !.apiCreditsUsed = IF "apiCreditsUsed" \in doc.dirty THEN doc.apiCreditsUsed ELSE @]

Saved(doc) == [doc EXCEPT !.dirty = {}]

(* User.findById(id) on the collection us: a string that is no ObjectId    *)
(* makes the query throw (CastOk), an id of no document gives null.        *)
CastOk(id) == id \in ObjectIds

FindById(us, id) == LoadDoc(IF id \in DOMAIN us THEN us[id] ELSE NoUser)

(* A CreditTransaction document *)
Tx(id, amount, type, balanceAfter) ==
    [user |-> id, amount |-> amount, type |-> type, balanceAfter |-> balanceAfter]

----------------------------------------------------------------------------
(* Results of the service *)

NoResult == [success |-> FALSE, statusCode |-> 0]
Failure(code) == [success |-> FALSE, statusCode |-> code]

(* JavaScript values a property lookup can give *)
Num(n) == [type |-> "number", value |-> n]
Undefined == [type |-> "undefined", value |-> 0]
Inherited == [type |-> "function", value |-> 0]

(* names every object literal inherits from Object.prototype *)
ObjectPrototype == {"constructor", "toString", "valueOf", "hasOwnProperty"}

(* obj[key]: an own property, else an inherited one, else undefined *)
GetProperty(obj, key) ==
    IF key \in DOMAIN obj THEN Num(obj[key])
    ELSE IF key \in ObjectPrototype THEN Inherited
    ELSE Undefined

(* a string: value is the number it converts to; a text is a non-empty      *)
(* string that converts to NaN; a boolean converts to 1 or 0                *)
Str(n) == [type |-> "string", value |-> n]
Text == [type |-> "text", value |-> 0]
Bool(b) == [type |-> "boolean", value |-> IF b THEN 1 ELSE 0]

(* what || and ! test: 0, false and undefined are falsy; a function and a   *)
(* non-empty string are truthy                                              *)
Truthy(v) ==
    \/ v.type \in {"function", "string", "text"}
    \/ v.type \in {"number", "boolean"} /\ v.value # 0

(* isNaN(v) and Number(v) *)
IsNaN(v) == v.type \in {"undefined", "text", "function"}

ToNumber(v) == v.value

(* creditService.getEndpointCreditCost *)
CostMap == [p \in {EstimatePath} |-> 1]

getEndpointCreditCost(endpointPath) ==
    LET cost == GetProperty(CostMap, endpointPath)
    IN  IF Truthy(cost) THEN cost ELSE Num(DefaultCost)

(* The credits object of a response body *)
NoCredits == [used |-> 0, total |-> 0, remaining |-> 0]

(* An HTTP request and what its handlers have done with it: the account     *)
(* whose credentials it carries and how, whether it has a file, req.user,   *)
(* whether protect has called next(), the generative-AI calls made and the  *)
(* FoodAnalysis documents saved for it, the status set on its response      *)
(* (0: none), whether the response has been sent, and the credits object    *)
(* of its body; amount is req.body.amount.                                  *)
NoReq ==
    [caller |-> "u1", auth |-> "none", file |-> FALSE, user |-> NoDoc, next |-> FALSE,
     aiCalls |-> 0, analyses |-> 0, status |-> 0, answered |-> FALSE,
     credits |-> NoCredits, amount |-> Undefined]

(* limit is the limit argument of a history call: <<>> when none is given *)
Idle ==
    [pc |-> "idle", op |-> "none", id |-> "u1", amount |-> 0, limit |-> <<>>,
     doc |-> NoDoc, previousUsed |-> 0, result |-> NoResult, req |-> NoReq]

----------------------------------------------------------------------------
(* Initial state: u1 has already consumed n credits one request at a time,  *)
(* u2 is a fresh account that has been made an administrator, u3 was never  *)
(* registered.                                                              *)

InitAdmins == {"u2"}

History(id, n) ==
    [i \in 1..n |-> Tx(id, -DefaultCost, "consume", DefaultCreditsTotal - i * DefaultCost)]

InitWith(slots, n) ==
    /\ users = [id \in ObjectIds |->
                  IF id = "u1" THEN [NewUser EXCEPT !.apiCreditsUsed = n * DefaultCost]
                  ELSE IF id \in RegisteredIds
                  THEN [NewUser EXCEPT !.isAdmin = id \in InitAdmins]
                  ELSE NoUser]
    /\ log = History("u1", n)
    /\ procs = [p \in slots |-> Idle]
    /\ faults = 0
    /\ initial = users

Init == \E n \in StartUsed : InitWith(Procs, n)

----------------------------------------------------------------------------
(* Steps shared by the operations *)

(* Slots are taken in order: slot p holds the p-th call *)
Free(p) ==
    /\ procs[p].pc = "idle"
    /\ \A q \in DOMAIN procs : q < p => procs[q].pc # "idle"

NewCall(op, id, amount) == [Idle EXCEPT !.op = op, !.id = id, !.amount = amount]

Done(call, r) == [call EXCEPT !.pc = "done", !.result = r]

At(p, op, pc) == procs[p].op = op /\ procs[p].pc = pc

Finish(p, r) == procs' = [procs EXCEPT ![p] = Done(@, r)]

(* doc.save() acting on the collection: the document must still be there *)
CanSave(id) == id \in DOMAIN users /\ users[id].present

(* the update applied to every document of the collection *)
SaveEvery(p, onFailure) ==
    IF CanSave(procs[p].id)
    THEN /\ users' = [id \in DOMAIN users |->
                        IF users[id].present THEN SaveDoc(users[id], procs[p].doc)
                        ELSE users[id]]
         /\ procs' = [procs EXCEPT ![p].pc = "log", ![p].doc = Saved(@)]
    ELSE /\ Finish(p, onFailure)
         /\ UNCHANGED users

(* await doc.save() of the call in slot p; onFailure is what its catch block answers *)
Save(p, onFailure) ==
    IF CanSave(procs[p].id)
    THEN /\ users' = [users EXCEPT ![procs[p].id] = SaveDoc(@, procs[p].doc)]
         /\ procs' = [procs EXCEPT ![p].pc = "log", ![p].doc = Saved(@)]
    ELSE /\ Finish(p, onFailure)
         /\ UNCHANGED users

----------------------------------------------------------------------------
(* creditService.consumeCredits(user, endpointPath) *)

(* the check made against zero instead of the cost *)
InsufficientBelowZero(doc, creditCost) ==
    doc.apiCreditsTotal - doc.apiCreditsUsed < 0

Insufficient(doc, creditCost) ==
    doc.apiCreditsTotal - doc.apiCreditsUsed < creditCost

(* the balance recorded as it was before the update *)
ConsumeTxStale(doc, creditCost, id) ==
    Tx(id, -creditCost, "consume", doc.apiCreditsTotal - doc.apiCreditsUsed + creditCost)

ConsumeTx(doc, creditCost, id) ==
    Tx(id, -creditCost, "consume", doc.apiCreditsTotal - doc.apiCreditsUsed)

ConsumeResult(doc) ==
    [success |-> TRUE,
     remainingCredits |-> doc.apiCreditsTotal - doc.apiCreditsUsed,
     creditsUsed |-> doc.apiCreditsUsed]

(* lines 17-36: the cost lookup, the fresh read, the check, the local update *)
(* a missing account taken for one without credits *)
ConsumeReadMissingAs429(us, call) ==
    LET freshUser == FindById(us, call.id)
        creditCost == call.amount
    IN  IF ~freshUser.found \/ Insufficient(freshUser, creditCost)
        THEN Done(call, Failure(429))
        ELSE [call EXCEPT !.pc = "save",
                          !.doc = SetUsed(freshUser, freshUser.apiCreditsUsed + creditCost)]

(* the decision taken on the document the caller holds *)
ConsumeReadSnapshot(us, call) ==
    LET user == call.req.user
        creditCost == call.amount
    IN  IF ~user.found
        THEN Done(call, Failure(500))
        ELSE IF Insufficient(user, creditCost)
        THEN Done(call, Failure(429))
        ELSE [call EXCEPT !.pc = "save",
                          !.doc = SetUsed(user, user.apiCreditsUsed + creditCost)]

ConsumeRead(us, call) ==
    LET freshUser == FindById(us, call.id)
        creditCost == call.amount
    IN  IF ~freshUser.found
        THEN Done(call, Failure(500))
        ELSE IF Insufficient(freshUser, creditCost)
        THEN Done(call, Failure(429))
        ELSE [call EXCEPT !.pc = "save",
                          !.doc = SetUsed(freshUser, freshUser.apiCreditsUsed + creditCost)]

consumeCredits(p, id) ==
    /\ Free(p)
    /\ id \in ObjectIds /\ users[id].present
    /\ procs' = [procs EXCEPT ![p] =
                   ConsumeRead(users, NewCall("consume", id, getEndpointCreditCost(EstimatePath).value))]
    /\ UNCHANGED <<users, log, faults, initial>>

ConsumeSave(p) ==
    /\ At(p, "consume", "save")
    /\ Save(p, Failure(500))
    /\ UNCHANGED <<log, faults, initial>>

(* the transaction created twice *)
ConsumeLogTwice(p) ==
    /\ At(p, "consume", "log")
    /\ log' = Append(Append(log, ConsumeTx(procs[p].doc, procs[p].amount, procs[p].id)),
                     ConsumeTx(procs[p].doc, procs[p].amount, procs[p].id))
    /\ Finish(p, ConsumeResult(procs[p].doc))
    /\ UNCHANGED <<users, faults, initial>>

ConsumeLog(p) ==
    /\ At(p, "consume", "log")
    /\ log' = Append(log, ConsumeTx(procs[p].doc, procs[p].amount, procs[p].id))
    /\ Finish(p, ConsumeResult(procs[p].doc))
    /\ UNCHANGED <<users, faults, initial>>

----------------------------------------------------------------------------
(* creditService.addCredits(userId, amount, description) *)

(* the limit itself refused *)
ExceedsLimitInclusive(doc, amount) == doc.apiCreditsTotal + amount >= MAX_CREDITS

(* the total before the addition compared with the limit *)
ExceedsLimitBefore(doc, amount) == doc.apiCreditsTotal > MAX_CREDITS

ExceedsLimit(doc, amount) == doc.apiCreditsTotal + amount > MAX_CREDITS

(* the new total recorded as the balance *)
AddTxTotal(doc, amount, id) ==
    Tx(id, amount, "refill", doc.apiCreditsTotal)

AddTx(doc, amount, id) ==
    Tx(id, amount, "refill", doc.apiCreditsTotal - doc.apiCreditsUsed)

AddResult(doc) ==
    [success |-> TRUE,
     totalCredits |-> doc.apiCreditsTotal,
     remainingCredits |-> doc.apiCreditsTotal - doc.apiCreditsUsed]

AddRead(us, call) ==
    IF ~CastOk(call.id)
    THEN Done(call, Failure(500))
    ELSE LET user == FindById(us, call.id)
             amount == call.amount
         IN  IF ~user.found
             THEN Done(call, Failure(404))
             ELSE IF ExceedsLimit(user, amount)
             THEN Done(call, Failure(400))
             ELSE [call EXCEPT !.pc = "save",
                               !.doc = SetTotal(user, user.apiCreditsTotal + amount)]

addCredits(p, userId, amount) ==
    /\ Free(p)
    /\ procs' = [procs EXCEPT ![p] = AddRead(users, NewCall("add", userId, amount))]
    /\ UNCHANGED <<users, log, faults, initial>>

AddSave(p) ==
    /\ At(p, "add", "save")
    /\ Save(p, Failure(500))
    /\ UNCHANGED <<log, faults, initial>>

AddLog(p) ==
    /\ At(p, "add", "log")
    /\ log' = Append(log, AddTx(procs[p].doc, procs[p].amount, procs[p].id))
    /\ Finish(p, AddResult(procs[p].doc))
    /\ UNCHANGED <<users, faults, initial>>

----------------------------------------------------------------------------
(* creditService.resetCredits(userId) *)

(* the adjustment recorded with the balance left before the reset *)
ResetTxBefore(doc, previousUsed, id) ==
    Tx(id, previousUsed, "adjustment", doc.apiCreditsTotal - previousUsed)

ResetTx(doc, previousUsed, id) ==
    Tx(id, previousUsed, "adjustment", doc.apiCreditsTotal)

ResetResult(doc, previousUsed) ==
    [success |-> TRUE,
     previousUsed |-> previousUsed,
     currentUsed |-> 0,
     remainingCredits |-> doc.apiCreditsTotal]

ResetRead(us, call) ==
    IF ~CastOk(call.id)
    THEN Done(call, Failure(500))
    ELSE LET user == FindById(us, call.id)
         IN  IF ~user.found
             THEN Done(call, Failure(404))
             ELSE [call EXCEPT !.pc = "save",
                               !.previousUsed = user.apiCreditsUsed,
                               !.doc = SetUsed(user, 0)]

resetCredits(p, userId) ==
    /\ Free(p)
    /\ procs' = [procs EXCEPT ![p] = ResetRead(users, NewCall("reset", userId, 0))]
    /\ UNCHANGED <<users, log, faults, initial>>

ResetSave(p) ==
    /\ At(p, "reset", "save")
    /\ Save(p, Failure(500))
    /\ UNCHANGED <<log, faults, initial>>

ResetLog(p) ==
    /\ At(p, "reset", "log")
    /\ log' = Append(log, ResetTx(procs[p].doc, procs[p].previousUsed, procs[p].id))
    /\ Finish(p, ResetResult(procs[p].doc, procs[p].previousUsed))
    /\ UNCHANGED <<users, faults, initial>>

----------------------------------------------------------------------------
(* routes/userRoutes.js: POST /api/users/:id/reset-count.  The handler      *)
(* writes apiCreditsUsed itself and records no transaction; every error is  *)
(* answered with status 400 by its catch block.                             *)

ResetCountResponse(doc, previousUsed) ==
    [success |-> TRUE,
     statusCode |-> 200,
     previousUsed |-> previousUsed,
     currentUsed |-> 0,
     apiCreditsTotal |-> doc.apiCreditsTotal,
     apiCreditsRemaining |-> doc.apiCreditsTotal]

ResetCountRead(us, call) ==
    IF ~CastOk(call.id)
    THEN Done(call, Failure(400))
    ELSE LET user == FindById(us, call.id)
         IN  IF ~user.found
             THEN Done(call, Failure(400))
             ELSE [call EXCEPT !.pc = "save",
                               !.previousUsed = user.apiCreditsUsed,
                               !.doc = SetUsed(user, 0)]

resetCount(p, id) ==
    /\ Free(p)
    /\ procs' = [procs EXCEPT ![p] = ResetCountRead(users, NewCall("resetCount", id, 0))]
    /\ UNCHANGED <<users, log, faults, initial>>

ResetCountSave(p) ==
    /\ At(p, "resetCount", "save")
    /\ IF CanSave(procs[p].id)
       THEN /\ users' = [users EXCEPT ![procs[p].id] = SaveDoc(@, procs[p].doc)]
            /\ procs' = [procs EXCEPT ![p] =
                           Done([@ EXCEPT !.doc = Saved(@)],
                                ResetCountResponse(procs[p].doc, procs[p].previousUsed))]
       ELSE /\ Finish(p, Failure(400))
            /\ UNCHANGED users
    /\ UNCHANGED <<log, faults, initial>>

----------------------------------------------------------------------------
(* A store call that rejects: the catch block of the operation turns it     *)
(* into its error result.  FindFail is the first store call (findById)      *)
(* rejecting, StoreFail a later one (save, create).                         *)

LedgerOps == {"consume", "add", "reset"}

CatchResult(op) == IF op \in LedgerOps THEN Failure(500) ELSE Failure(400)

FindFail(p, op, id, amount) ==
    /\ Free(p)
    /\ op = "consume" => id \in ObjectIds /\ users[id].present
    /\ faults < MaxFaults
    /\ faults' = faults + 1
    /\ procs' = [procs EXCEPT ![p] = Done(NewCall(op, id, amount), CatchResult(op))]
    /\ UNCHANGED <<users, log, initial>>

StoreFail(p) ==
    /\ procs[p].pc \in {"save", "log"}
    /\ faults < MaxFaults
    /\ faults' = faults + 1
    /\ Finish(p, CatchResult(procs[p].op))
    /\ UNCHANGED <<users, log, initial>>

----------------------------------------------------------------------------

(* the store call a ledger operation in flight is waiting for *)
LedgerStep(p) ==
    \/ ConsumeSave(p) \/ ConsumeLog(p)
    \/ AddSave(p) \/ AddLog(p)
    \/ ResetSave(p) \/ ResetLog(p)

Step(p) ==
    \/ ConsumeSave(p) \/ ConsumeLog(p)
    \/ AddSave(p) \/ AddLog(p)
    \/ ResetSave(p) \/ ResetLog(p)
    \/ ResetCountSave(p)
    \/ StoreFail(p)

Call(p) ==
    \/ \E id \in ObjectIds : consumeCredits(p, id)
    \/ \E id \in IdInputs, amount \in Amounts : addCredits(p, id, amount)
    \/ \E id \in IdInputs : resetCredits(p, id)
    \/ \E id \in IdInputs : resetCount(p, id)
    \/ \E op \in LedgerOps \cup {"resetCount"}, id \in RegisteredIds :
          FindFail(p, op, id, IF op = "consume" THEN DefaultCost
                              ELSE IF op = "add" THEN 1 ELSE 0)

Next == \E p \in Procs : Call(p) \/ Step(p)

Spec == Init /\ [][Next]_vars

(* Calls made one at a time: a call starts only when no other is in flight *)
Quiet == \A p \in DOMAIN procs : procs[p].pc \in {"idle", "done"}

NextSeq == \E p \in Procs : (Quiet /\ Call(p)) \/ Step(p)

SpecSeq == Init /\ [][NextSeq]_vars

----------------------------------------------------------------------------
(* creditService.getTransactionHistory(userId, limit = 20) and the two      *)
(* routes that call it.  The log is kept in creation order, so the sort by  *)
(* createdAt descending is the reversal of the selected transactions.       *)

Min(a, b) == IF a < b THEN a ELSE b

Abs(n) == IF n < 0 THEN -n ELSE n

(* CreditTransaction.find({ user: userId }) *)
FindByUser(lg, userId) == SelectSeq(lg, LAMBDA t : t.user = userId)

(* the transactions left in creation order *)
SortOldestFirst(s) == s

(* .sort({ createdAt: -1 }) *)
SortNewestFirst(s) == [i \in 1..Len(s) |-> s[Len(s) + 1 - i]]

(* .limit(n): the store reads 0 as "no limit" and a negative n as -n *)
QueryLimit(s, n) == IF n = 0 THEN s ELSE SubSeq(s, 1, Min(Abs(n), Len(s)))

HistoryResult(transactions) == [success |-> TRUE, transactions |-> transactions]

(* limitArg is <<>> when the caller gives no limit *)
HistoryRead(lg, call) ==
    LET limit == IF call.limit = <<>> THEN DefaultHistoryLimit ELSE call.limit[1]
    IN  IF ~CastOk(call.id)
        THEN Done(call, Failure(500))
        ELSE Done(call, HistoryResult(
                 QueryLimit(SortNewestFirst(FindByUser(lg, call.id)), limit)))

getTransactionHistory(p, userId, limitArg) ==
    /\ Free(p)
    /\ procs' = [procs EXCEPT ![p] =
                   HistoryRead(log, [NewCall("history", userId, 0) EXCEPT !.limit = limitArg])]
    /\ UNCHANGED <<users, log, faults, initial>>

(* GET /api/credits: the history of the authenticated user, no limit given *)
creditsRoute(p, userId) == getTransactionHistory(p, userId, <<>>)

(* GET /api/credits/:userId/history?limit=..: query is <<>> when the query  *)
(* string has no limit, <<n>> when it has the integer n                     *)
RouteLimit(query) ==
    IF query = <<>> \/ query[1] = 0 THEN RouteHistoryLimit ELSE query[1]

historyRoute(p, userId, query) == getTransactionHistory(p, userId, <<RouteLimit(query)>>)

LimitQueries == {<<>>, <<0>>, <<-2>>, <<2>>}

NextHistory ==
    \E p \in Procs :
       \/ \E id \in RegisteredIds : creditsRoute(p, id)
       \/ \E id \in IdInputs, query \in LimitQueries : historyRoute(p, id, query)
       \/ \E id \in RegisteredIds : consumeCredits(p, id)
       \/ \E id \in RegisteredIds : addCredits(p, id, 1)
       \/ \E id \in RegisteredIds : resetCredits(p, id)
       \/ ConsumeSave(p) \/ ConsumeLog(p)
       \/ AddSave(p) \/ AddLog(p)
       \/ ResetSave(p) \/ ResetLog(p)

SpecHistory == Init /\ [][NextHistory]_vars

----------------------------------------------------------------------------
(* getEndpointCreditCost called on its own.  The slot keeps the identifier  *)
(* in id and the value returned in result.cost.                             *)

CostResult(cost) == [success |-> TRUE, cost |-> cost]

costLookup(p, endpointPath) ==
    /\ Free(p)
    /\ procs' = [procs EXCEPT ![p] =
                   Done(NewCall("cost", endpointPath, 0),
                        CostResult(getEndpointCreditCost(endpointPath)))]
    /\ UNCHANGED <<users, log, faults, initial>>

EndpointPaths ==
    {EstimatePath, "/api/credits", "/api/food-analysis", "", "constructor", "toString"}

NextCost ==
    \E p \in Procs :
       \/ \E endpointPath \in EndpointPaths : costLookup(p, endpointPath)
       \/ \E id \in RegisteredIds : consumeCredits(p, id)
       \/ ConsumeSave(p) \/ ConsumeLog(p)

SpecCost == Init /\ [][NextCost]_vars

----------------------------------------------------------------------------
(* middleware/authMiddleware.js protect, and POST /api/estimate-calories    *)
(* (server.js).  A request of account id carries a Bearer token of that     *)
(* account ("bearer"), a token that is invalid or expired ("badtoken"), the *)
(* apiKey of that account in x-api-key ("apikey"), or no credentials        *)
(* ("none").  The slot keeps creditResult in result.                        *)

AuthMethods == {"bearer", "badtoken", "apikey", "none"}

(* return res.status(status).json(..): the response is sent *)
Reject(call, status) ==
    Done([call EXCEPT !.req.status = status, !.req.answered = TRUE], Failure(status))

(* res.status(status); throw new Error(..) in an async middleware: the      *)
(* promise it returned is rejected, nothing is sent yet                     *)
Throw(call, status) ==
    [call EXCEPT !.pc = "thrown", !.req.status = status, !.result = Failure(status)]

(* the same in a synchronous middleware: the router catches the error and   *)
(* passes it to the error-handling middleware                               *)
SyncThrow(call, status) ==
    [call EXCEPT !.pc = "error", !.req.status = status, !.result = Failure(status)]

(* the default applied to every failure *)
StatusAlwaysDefault(statusCode, default) == default

(* statusCode || default *)
StatusOr(statusCode, default) == IF statusCode # 0 THEN statusCode ELSE default

(* consumeCredits called whether there is a file or not *)
HandlerNoFileCheck(call) ==
    [call EXCEPT !.pc = "consume",
                 !.amount = getEndpointCreditCost(EstimatePath).value]

(* lines 81-87 of the handler: the file check, then consumeCredits is called *)
Handler(call) ==
    IF ~call.req.file
    THEN Reject(call, 400)
    ELSE [call EXCEPT !.pc = "consume",
                      !.amount = getEndpointCreditCost(EstimatePath).value]

(* protect up to its first await, and next() when that await ends it:      *)
(* jwt.verify throws on an invalid or expired token, findById and findOne   *)
(* give null for a user that is gone                                        *)
Protect(us, call) ==
    IF call.req.auth = "bearer"
    THEN LET user == FindById(us, call.req.caller)
         IN  IF ~user.found
             THEN Throw(call, 401)
             ELSE [call EXCEPT !.req.user = user, !.req.next = TRUE]
    ELSE IF call.req.auth = "apikey"
    THEN LET user == FindById(us, call.req.caller)
         IN  IF ~user.found
             THEN Throw(call, 401)
             ELSE [call EXCEPT !.pc = "fresh"]
    ELSE Throw(call, 401)

estimateRequest(p, id, auth, file) ==
    /\ Free(p)
    /\ procs' = [procs EXCEPT ![p] =
                   LET c == Protect(users, [NewCall("estimate", id, 0) EXCEPT
                                              !.req.caller = id,
                                              !.req.auth = auth,
                                              !.req.file = file])
                   IN  IF c.req.next THEN Handler(c) ELSE c]
    /\ UNCHANGED <<users, log, faults, initial>>

(* lines 59-62 of protect: findById returns, then `user = freshUser`        *)
(* assigns to the const declared at line 48, which throws a TypeError; the  *)
(* catch block sets status 401 and throws, next() is not reached            *)
ProtectFresh(p) ==
    /\ procs[p].pc = "fresh"
    /\ procs' = [procs EXCEPT ![p] = Throw(@, 401)]
    /\ UNCHANGED <<users, log, faults, initial>>

(* The rejected promise of an async middleware.  The router of Express 4    *)
(* does not look at it: the rejection is unhandled and the request gets no  *)
(* response.  The router of Express 5 passes the error on, as it does with  *)
(* an error thrown synchronously: the first error-handling middleware of    *)
(* server.js (lines 331-344) answers it with status 400.                    *)
UnhandledRejection(p) ==
    /\ procs[p].pc = "thrown"
    /\ procs' = [procs EXCEPT ![p].pc = "done"]
    /\ UNCHANGED <<users, log, faults, initial>>

ErrorMiddleware(p) ==
    /\ procs[p].pc \in {"thrown", "error"}
    /\ procs' = [procs EXCEPT ![p].pc = "done",
                              ![p].req.status = 400,
                              ![p].req.answered = TRUE]
    /\ UNCHANGED <<users, log, faults, initial>>

(* lines 90-98: a failed creditResult is answered with its status code *)
CreditFailure(call, r) ==
    Done([call EXCEPT !.req.status = StatusOr(r.statusCode, 429),
                      !.req.answered = TRUE,
                      !.req.credits =
                         [used |-> call.req.user.apiCreditsUsed,
                          total |-> call.req.user.apiCreditsTotal,
                          remaining |-> call.req.user.apiCreditsTotal
                                          - call.req.user.apiCreditsUsed]], r)

(* consumeCredits lines 17-35 for the request, then line 90 *)
EstimateConsume(p) ==
    /\ At(p, "estimate", "consume")
    /\ LET c == ConsumeRead(users, procs[p])
       IN  procs' = [procs EXCEPT ![p] =
                       IF c.pc = "done" THEN CreditFailure(procs[p], c.result) ELSE c]
    /\ UNCHANGED <<users, log, faults, initial>>

EstimateSave(p) ==
    /\ At(p, "estimate", "save")
    /\ IF CanSave(procs[p].id)
       THEN /\ users' = [users EXCEPT ![procs[p].id] = SaveDoc(@, procs[p].doc)]
            /\ procs' = [procs EXCEPT ![p].pc = "log", ![p].doc = Saved(@)]
       ELSE /\ procs' = [procs EXCEPT ![p] = CreditFailure(@, Failure(500))]
            /\ UNCHANGED users
    /\ UNCHANGED <<log, faults, initial>>

(* the transaction is created, consumeCredits returns success, the handler  *)
(* goes on to the generative-AI call                                        *)
EstimateLog(p) ==
    /\ At(p, "estimate", "log")
    /\ log' = Append(log, ConsumeTx(procs[p].doc, procs[p].amount, procs[p].id))
    /\ procs' = [procs EXCEPT ![p].pc = "ai", ![p].result = ConsumeResult(procs[p].doc)]
    /\ UNCHANGED <<users, faults, initial>>

(* a store call of consumeCredits rejects: its catch block returns 500 *)
EstimateStoreFail(p) ==
    /\ procs[p].op = "estimate" /\ procs[p].pc \in {"consume", "save", "log"}
    /\ faults < MaxFaults
    /\ faults' = faults + 1
    /\ procs' = [procs EXCEPT ![p] = CreditFailure(@, Failure(500))]
    /\ UNCHANGED <<users, log, initial>>

AiOutcomes == {"ok", "blocked", "error"}

(* line 169: model.generateContent, and the parsing of its answer *)
AiCall(p, outcome) ==
    /\ At(p, "estimate", "ai")
    /\ procs' = [procs EXCEPT ![p] =
                   LET called == [@ EXCEPT !.req.aiCalls = @ + 1]
                   IN  CASE outcome = "ok" -> [called EXCEPT !.pc = "analysis"]
                         [] outcome = "blocked" ->
                               [called EXCEPT !.pc = "done", !.req.status = 400,
                                              !.req.answered = TRUE]
                         [] outcome = "error" ->
                               [called EXCEPT !.pc = "done", !.req.status = 500,
                                              !.req.answered = TRUE]]
    /\ UNCHANGED <<users, log, faults, initial>>

(* lines 290-311: FoodAnalysis.create; the answer is 200 whether it is saved or not *)
AnalysisSave(p, saved) ==
    /\ At(p, "estimate", "analysis")
    /\ procs' = [procs EXCEPT ![p].pc = "done",
                              ![p].req.analyses = IF saved THEN @ + 1 ELSE @,
                              ![p].req.status = 200,
                              ![p].req.answered = TRUE]
    /\ UNCHANGED <<users, log, faults, initial>>

(* the requests made: of an account with credits or without (u1), of an     *)
(* account that does not exist (u3); without a file only when authenticated *)
EstimateInputs ==
    {[id |-> id, auth |-> auth, file |-> TRUE] : id \in {"u1", "u3"}, auth \in AuthMethods}
    \cup {[id |-> "u1", auth |-> "bearer", file |-> FALSE]}

NextEstimate ==
    \E p \in Procs :
       \/ \E r \in EstimateInputs : estimateRequest(p, r.id, r.auth, r.file)
       \/ ProtectFresh(p)
       \/ UnhandledRejection(p)
       \/ ErrorMiddleware(p)
       \/ EstimateConsume(p)
       \/ EstimateSave(p)
       \/ EstimateLog(p)
       \/ EstimateStoreFail(p)
       \/ \E outcome \in AiOutcomes : AiCall(p, outcome)
       \/ \E saved \in BOOLEAN : AnalysisSave(p, saved)

SpecEstimate == Init /\ [][NextEstimate]_vars

----------------------------------------------------------------------------
(* Requests of u1 to POST /api/estimate-calories while credits are added to *)
(* its account, which starts with one credit left or with none.             *)

NearlySpent == {DefaultCreditsTotal - 1, DefaultCreditsTotal}

InitFresh == \E n \in NearlySpent : InitWith(Procs, n)

NextFresh ==
    \E p \in Procs :
       \/ estimateRequest(p, "u1", "bearer", TRUE)
       \/ EstimateConsume(p)
       \/ EstimateSave(p)
       \/ EstimateLog(p)
       \/ \E outcome \in AiOutcomes : AiCall(p, outcome)
       \/ \E saved \in BOOLEAN : AnalysisSave(p, saved)
       \/ addCredits(p, "u1", 1)
       \/ AddSave(p) \/ AddLog(p)

SpecFresh == InitFresh /\ [][NextFresh]_vars

----------------------------------------------------------------------------
(* The ledger operations under a store whose calls all come back: requests  *)
(* of u1 to POST /api/estimate-calories, whose handler calls consumeCredits *)
(* with the user protect loaded, calls of the other operations on the same  *)
(* account, and DELETE /api/users/:id, which can take the account away      *)
(* while they run.                                                          *)

(* await User.deleteOne({ _id: user._id }), line 318 of routes/userRoutes.js *)
deleteUser(id) ==
    /\ users[id].present
    /\ users' = [users EXCEPT ![id] = NoUser]
    /\ UNCHANGED <<procs, log, faults, initial>>

(* the store call the operation in slot p waits for comes back, with its    *)
(* result or with an error                                                  *)
StoreReturns(p) ==
    \/ EstimateConsume(p) \/ EstimateSave(p) \/ EstimateLog(p)
    \/ EstimateStoreFail(p)
    \/ AddSave(p) \/ AddLog(p)
    \/ ResetSave(p) \/ ResetLog(p)
    \/ procs[p].op \in LedgerOps /\ StoreFail(p)

NextLive ==
    \/ \E p \in Procs :
          \/ estimateRequest(p, "u1", "bearer", TRUE)
          \/ addCredits(p, "u1", 1)
          \/ resetCredits(p, "u1")
          \/ creditsRoute(p, "u1")
          \/ StoreReturns(p)
    \/ deleteUser("u1")

(* u1 has one credit left *)
InitLive == InitWith(Procs, DefaultCreditsTotal - 1)

SpecLive ==
    /\ InitLive
    /\ [][NextLive]_vars
    /\ \A p \in Procs : WF_vars(StoreReturns(p))

----------------------------------------------------------------------------
(* The admin-only routes that grant and reset credits:                      *)
(* POST /api/credits/:userId/add, POST /api/credits/:userId/reset           *)
(* (routes/creditRoutes.js) and POST /api/users/:id/reset-count             *)
(* (routes/userRoutes.js), each behind protect and admin.  A request keeps  *)
(* the op of the ledger operation its handler runs; when the handler has    *)
(* called the operation, result is what the route answers with.             *)

AdminRoutes == {"add", "reset", "resetCount"}

(* line 46 of creditRoutes.js *)
InvalidAmount(amount) ==
    \/ ~Truthy(amount)
    \/ IsNaN(amount)
    \/ ToNumber(amount) <= 0

(* the handler up to the call of the ledger operation *)
RouteHandler(call) ==
    IF call.op = "add" /\ InvalidAmount(call.req.amount)
    THEN Reject(call, 400)
    ELSE [call EXCEPT !.pc = "call",
                      !.amount = IF call.op = "add" THEN ToNumber(call.req.amount) ELSE 0]

(* the check left out *)
AdminSkipped(call) == RouteHandler(call)

(* admin: a synchronous middleware *)
AdminOnly(call) ==
    IF call.req.user.found /\ call.req.user.isAdmin
    THEN RouteHandler(call)
    ELSE SyncThrow(call, 401)

adminRequest(p, route, caller, auth, id, amount) ==
    /\ Free(p)
    /\ procs' = [procs EXCEPT ![p] =
                   LET c == Protect(users, [NewCall(route, id, 0) EXCEPT
                                              !.req.caller = caller,
                                              !.req.auth = auth,
                                              !.req.amount = amount])
                   IN  IF c.req.next THEN AdminOnly(c) ELSE c]
    /\ UNCHANGED <<users, log, faults, initial>>

(* the first store call of the operation the handler runs *)
RouteCall(p) ==
    /\ procs[p].pc = "call"
    /\ procs' = [procs EXCEPT ![p] =
                   CASE procs[p].op = "add" -> AddRead(users, procs[p])
                     [] procs[p].op = "reset" -> ResetRead(users, procs[p])
                     [] procs[p].op = "resetCount" -> ResetCountRead(users, procs[p])]
    /\ UNCHANGED <<users, log, faults, initial>>

(* who asks: the administrator u2 with a token or with its API key, the     *)
(* plain user u1 with a token, nobody                                       *)
Callers ==
    {[caller |-> "u2", auth |-> "bearer"], [caller |-> "u2", auth |-> "apikey"],
     [caller |-> "u1", auth |-> "bearer"], [caller |-> "u1", auth |-> "none"]}

AmountBodies ==
    {Undefined, Num(0), Num(-5), Num(1), Num(900), Str(2), Text, Bool(TRUE)}

AdminInputs ==
    {[route |-> "add", who |-> [caller |-> "u2", auth |-> "bearer"], amount |-> a] :
        a \in AmountBodies}
    \cup {[route |-> r, who |-> w, amount |-> Num(1)] : r \in AdminRoutes, w \in Callers}

NextAdmin ==
    \E p \in Procs :
       \/ \E r \in AdminInputs :
             adminRequest(p, r.route, r.who.caller, r.who.auth, "u1", r.amount)
       \/ ProtectFresh(p)
       \/ UnhandledRejection(p)
       \/ ErrorMiddleware(p)
       \/ RouteCall(p)
       \/ AddSave(p) \/ AddLog(p)
       \/ ResetSave(p) \/ ResetLog(p)
       \/ ResetCountSave(p)

SpecAdmin == Init /\ [][NextAdmin]_vars

----------------------------------------------------------------------------
(* The three paths that create an account: POST /api/users (password        *)
(* registration), the Google OAuth strategy (config/passportConfig.js) and  *)
(* POST /api/users/auth/google/ios.  Each looks the user up first           *)
(* (findOne) and calls User.create when there is none; the new document     *)
(* gets an id no document and no transaction has had.                       *)

CreateOps == {"register", "googleOAuth", "googleIos"}

(* the credit fields passed to User.create *)
NoCreditFields == [apiKey |-> "uuid"]

IosFields ==
    [apiKey |-> "uuid", apiCreditsUsed |-> IosCreditsUsed, apiCreditsTotal |-> IosCreditsTotal]

CreateFields(op) == IF op = "googleIos" THEN IosFields ELSE NoCreditFields

(* a schema whose credit fields have no default *)
UserCreateNoDefaults(fields) ==
    [present |-> TRUE,
     apiCreditsTotal |-> IF "apiCreditsTotal" \in DOMAIN fields
                         THEN fields.apiCreditsTotal ELSE 0,
     apiCreditsUsed |-> IF "apiCreditsUsed" \in DOMAIN fields
                        THEN fields.apiCreditsUsed ELSE 0,
     isAdmin |-> FALSE]

(* User.create(fields): the schema defaults fill the fields not given *)
UserCreate(fields) ==
    [present |-> TRUE,
     apiCreditsTotal |-> IF "apiCreditsTotal" \in DOMAIN fields
                         THEN fields.apiCreditsTotal ELSE DefaultCreditsTotal,
     apiCreditsUsed |-> IF "apiCreditsUsed" \in DOMAIN fields
                        THEN fields.apiCreditsUsed ELSE DefaultCreditsUsed,
     isAdmin |-> FALSE]

Answer(statusCode) == [success |-> TRUE, statusCode |-> statusCode]

(* the lookup: registration refuses an existing user with 400, the Google   *)
(* paths sign the existing user in                                          *)
CreateRead(us, call) ==
    IF us[call.id].present
    THEN IF call.op = "register" THEN Done(call, Failure(400)) ELSE Done(call, Answer(200))
    ELSE [call EXCEPT !.pc = "create"]

createAccount(p, op, id) ==
    /\ Free(p)
    /\ procs' = [procs EXCEPT ![p] = CreateRead(users, NewCall(op, id, 0))]
    /\ UNCHANGED <<users, log, faults, initial>>

(* await User.create(..): the unique index on email refuses a second        *)
(* document for the same user                                               *)
CreateUser(p) ==
    /\ procs[p].op \in CreateOps /\ procs[p].pc = "create"
    /\ IF users[procs[p].id].present
       THEN /\ Finish(p, IF procs[p].op = "googleOAuth" THEN Failure(500) ELSE Failure(400))
            /\ UNCHANGED users
       ELSE /\ users' = [users EXCEPT ![procs[p].id] = UserCreate(CreateFields(procs[p].op))]
            /\ Finish(p, Answer(IF procs[p].op = "register" THEN 201 ELSE 200))
    /\ UNCHANGED <<log, faults, initial>>

NextAccounts ==
    \E p \in Procs :
       \/ \E id \in ObjectIds : createAccount(p, "register", id)
       \/ \E id \in ObjectIds : createAccount(p, "googleOAuth", id)
       \/ \E id \in ObjectIds : createAccount(p, "googleIos", id)
       \/ CreateUser(p)
       \/ \E id \in ObjectIds : consumeCredits(p, id)
       \/ ConsumeSave(p) \/ ConsumeLog(p)

SpecAccounts == Init /\ [][NextAccounts]_vars

----------------------------------------------------------------------------
(* The ledger of one account under load: account u1 with no credit left,   *)
(* consumeCredits and addCredits calls on it, at most NumProcs of them in   *)
(* flight at a time.                                                        *)

LedgerSlots == 1..(NumProcs + 2)
SmallAmounts == {1, 2}

InFlight == {p \in DOMAIN procs : procs[p].pc \in {"save", "log"}}

NextLedger ==
    \E p \in LedgerSlots :
       \/ Cardinality(InFlight) < NumProcs /\ consumeCredits(p, "u1")
       \/ Cardinality(InFlight) < NumProcs /\ \E amount \in SmallAmounts : addCredits(p, "u1", amount)
       \/ ConsumeSave(p) \/ ConsumeLog(p)
       \/ AddSave(p) \/ AddLog(p)

InitLedger == InitWith(LedgerSlots, DefaultCreditsTotal)

SpecLedger == InitLedger /\ [][NextLedger]_vars

----------------------------------------------------------------------------
(* Properties *)

AccountExists(id) == id \in DOMAIN users /\ users[id].present

Remaining(id) == users[id].apiCreditsTotal - users[id].apiCreditsUsed

Succeeded(p) == procs[p].pc = "done" /\ procs[p].result.success

FailedWith(p, code) ==
    /\ procs[p].pc = "done"
    /\ ~procs[p].result.success
    /\ procs[p].result.statusCode = code

(* C1: for every account, in every reachable state, 0 <= apiCreditsUsed and *)
(* apiCreditsUsed <= apiCreditsTotal: the remaining credits are never       *)
(* negative, whatever the interleaving of the ledger calls.                 *)
C1_RemainingNeverNegative ==
    \A id \in ObjectIds :
       AccountExists(id) =>
          /\ 0 <= users[id].apiCreditsUsed
          /\ users[id].apiCreditsUsed <= users[id].apiCreditsTotal

(* C2: when all N calls are consumeCredits calls of cost 1 on one account   *)
(* that had K < N remaining credits, and all have returned, exactly K have  *)
(* succeeded, exactly N - K have answered 429, and the remaining balance    *)
(* is 0.                                                                    *)
C2_ExactlyKSucceed ==
    \A id \in RegisteredIds :
       LET N == Cardinality(DOMAIN procs)
           K == initial[id].apiCreditsTotal - initial[id].apiCreditsUsed
       IN  (/\ K < N
            /\ faults = 0
            /\ \A p \in DOMAIN procs :
                  /\ procs[p].pc = "done"
                  /\ procs[p].op = "consume"
                  /\ procs[p].id = id
                  /\ procs[p].amount = 1)
           => /\ Cardinality({p \in DOMAIN procs : Succeeded(p)}) = K
              /\ Cardinality({p \in DOMAIN procs : FailedWith(p, 429)}) = N - K
              /\ Remaining(id) = 0

----------------------------------------------------------------------------
(* One ledger call executed alone, from its read to its return, on the      *)
(* state st = [users, log]: the reference for serial executions.            *)

ReadOf(us, call) ==
    CASE call.op = "consume" -> ConsumeRead(us, call)
      [] call.op = "add" -> AddRead(us, call)
      [] call.op = "reset" -> ResetRead(us, call)

LogTx(call) ==
    CASE call.op = "consume" -> ConsumeTx(call.doc, call.amount, call.id)
      [] call.op = "add" -> AddTx(call.doc, call.amount, call.id)
      [] call.op = "reset" -> ResetTx(call.doc, call.previousUsed, call.id)

OkResult(call) ==
    CASE call.op = "consume" -> ConsumeResult(call.doc)
      [] call.op = "add" -> AddResult(call.doc)
      [] call.op = "reset" -> ResetResult(call.doc, call.previousUsed)

RunAlone(st, call) ==
    LET c == ReadOf(st.users, call)
    IN  IF c.pc = "done"
        THEN [users |-> st.users, log |-> st.log, result |-> c.result]
        ELSE [users |-> [st.users EXCEPT ![c.id] = SaveDoc(@, c.doc)],
              log |-> Append(st.log, LogTx([c EXCEPT !.doc = Saved(@)])),
              result |-> OkResult([c EXCEPT !.doc = Saved(@)])]

(* The calls of the slots in `order`, one after the other *)
RECURSIVE RunInOrder(_, _)
RunInOrder(st, order) ==
    IF order = <<>>
    THEN st
    ELSE LET p == Head(order)
             r == RunAlone(st, NewCall(procs[p].op, procs[p].id, procs[p].amount))
         IN  RunInOrder([users |-> r.users,
                         log |-> r.log,
                         results |-> [st.results EXCEPT ![p] = r.result]],
                        Tail(order))

Orders ==
    LET n == Cardinality(DOMAIN procs)
    IN  {o \in [1..n -> DOMAIN procs] : \A i, j \in 1..n : i # j => o[i] # o[j]}

InitialLog == History("u1", initial["u1"].apiCreditsUsed)

Appended == SubSeq(log, Len(InitialLog) + 1, Len(log))

Count(s, x) == Cardinality({i \in DOMAIN s : s[i] = x})

SameBag(s, t) ==
    /\ Len(s) = Len(t)
    /\ \A i \in DOMAIN s : Count(s, s[i]) = Count(t, s[i])

(* C3: concurrent ledger calls on the same account are serialized: once     *)
(* all calls have returned, the accounts, the appended transactions and     *)
(* the results are those of the same calls executed one after the other in  *)
(* some order.                                                              *)
C3_Serializable ==
    (/\ faults = 0
     /\ \A p \in DOMAIN procs : procs[p].pc = "done" /\ procs[p].op \in LedgerOps)
    => \E o \in Orders :
          LET f == RunInOrder([users |-> initial,
                               log |-> <<>>,
                               results |-> [p \in DOMAIN procs |-> NoResult]], o)
          IN  /\ f.users = users
              /\ SameBag(f.log, Appended)
              /\ \A p \in DOMAIN procs : f.results[p] = procs[p].result

----------------------------------------------------------------------------
(* Steps of the call in slot p, as seen on two consecutive states *)

Called(p, op) == procs[p].pc = "idle" /\ procs'[p].pc # "idle" /\ procs'[p].op = op

Moved(p, op, from, to) ==
    procs[p].op = op /\ procs[p].pc = from /\ procs'[p].pc = to

(* The create call of a ledger operation rejects after its save succeeded *)
AppendFailed(p) ==
    /\ procs[p].op \in LedgerOps
    /\ procs[p].pc = "log"
    /\ procs'[p].pc = "done"
    /\ ~procs'[p].result.success

(* The counters of the account as they were when the call in slot p read it *)
BeforeCall(p) ==
    CASE procs[p].op = "consume" ->
           [apiCreditsTotal |-> procs[p].doc.apiCreditsTotal,
            apiCreditsUsed |-> procs[p].doc.apiCreditsUsed - procs[p].amount]
      [] procs[p].op = "add" ->
           [apiCreditsTotal |-> procs[p].doc.apiCreditsTotal - procs[p].amount,
            apiCreditsUsed |-> procs[p].doc.apiCreditsUsed]
      [] procs[p].op = "reset" ->
           [apiCreditsTotal |-> procs[p].doc.apiCreditsTotal,
            apiCreditsUsed |-> procs[p].previousUsed]

(* C4: a mutating ledger operation is all-or-nothing: when its transaction  *)
(* append fails after its account write, the operation returns 500 and, as  *)
(* it returns, either the counters are back at their values of before the   *)
(* operation or the transaction is in the log after all.                    *)
C4_AllOrNothing ==
    [][\A p \in DOMAIN procs :
          AppendFailed(p) =>
             /\ procs'[p].result.statusCode = 500
             /\ \/ /\ users'[procs[p].id].apiCreditsTotal = BeforeCall(p).apiCreditsTotal
                   /\ users'[procs[p].id].apiCreditsUsed = BeforeCall(p).apiCreditsUsed
                \/ log' = Append(log, LogTx(procs[p]))]_vars

(* Replaying the transactions of one account from (100, 0): what one      *)
(* transaction adds to the counters, and the sum over txs[lo..hi].         *)
Delta(t, id) ==
    IF t.user # id
    THEN [apiCreditsTotal |-> 0, apiCreditsUsed |-> 0]
    ELSE CASE t.type = "consume" -> [apiCreditsTotal |-> 0, apiCreditsUsed |-> -t.amount]
           [] t.type = "refill" -> [apiCreditsTotal |-> t.amount, apiCreditsUsed |-> 0]
           [] t.type = "adjustment" -> [apiCreditsTotal |-> 0, apiCreditsUsed |-> -t.amount]

RECURSIVE SumDeltas(_, _, _, _)
SumDeltas(txs, id, lo, hi) ==
    IF lo > hi
    THEN [apiCreditsTotal |-> 0, apiCreditsUsed |-> 0]
    ELSE IF lo = hi
    THEN Delta(txs[lo], id)
    ELSE LET mid == (lo + hi) \div 2
             a == SumDeltas(txs, id, lo, mid)
             b == SumDeltas(txs, id, mid + 1, hi)
         IN  [apiCreditsTotal |-> a.apiCreditsTotal + b.apiCreditsTotal,
              apiCreditsUsed |-> a.apiCreditsUsed + b.apiCreditsUsed]

Replay(acc, id, txs) ==
    LET d == SumDeltas(txs, id, 1, Len(txs))
    IN  [acc EXCEPT !.apiCreditsTotal = @ + d.apiCreditsTotal,
                    !.apiCreditsUsed = @ + d.apiCreditsUsed]

NoneInProgress(id) ==
    \A p \in DOMAIN procs : procs[p].pc \in {"save", "log"} => procs[p].id # id

----------------------------------------------------------------------------

Unchanged(p) == procs'[p] = procs[p]

(* C6: consumeCredits on an account whose remaining credits, as read by the *)
(* call, are less than the cost returns 429, leaves both counters as they   *)
(* are and appends no transaction, then or later.                           *)
C6_InsufficientRejected ==
    [][\A p \in DOMAIN procs :
          /\ (/\ Called(p, "consume")
              /\ faults' = faults
              /\ Remaining(procs'[p].id) < procs'[p].amount)
             => /\ procs'[p].pc = "done"
                /\ procs'[p].result = Failure(429)
                /\ users' = users
                /\ log' = log
          /\ FailedWith(p, 429) => Unchanged(p)]_vars

C6_Witness ==
    \E p \in DOMAIN procs :
       /\ procs[p].op = "consume"
       /\ FailedWith(p, 429)
       /\ Remaining(procs[p].id) = 0
       /\ Len(log) = DefaultCreditsTotal

(* C7: a consumeCredits call executed alone on an account with remaining   *)
(* >= cost raises apiCreditsUsed by exactly the cost, leaves                *)
(* apiCreditsTotal, appends one transaction (amount = -cost, type consume,  *)
(* balanceAfter = total - used after the update) and returns                *)
(* remainingCredits = total - used and creditsUsed = used, both after the   *)
(* update.                                                                  *)
C7_ConsumeAlone ==
    [][\A p \in DOMAIN procs :
          LET id == procs'[p].id
              cost == procs'[p].amount
          IN  /\ (/\ Called(p, "consume")
                  /\ faults' = faults
                  /\ Remaining(id) >= cost)
                 => /\ procs'[p].pc = "save"
                    /\ users' = users
                    /\ log' = log
              /\ Moved(p, "consume", "save", "log")
                 => /\ users' = [users EXCEPT ![id].apiCreditsUsed = @ + cost]
                    /\ log' = log
              /\ (Moved(p, "consume", "log", "done") /\ faults' = faults)
                 => /\ users' = users
                    /\ log' = Append(log, [user |-> id, amount |-> -cost,
                                           type |-> "consume",
                                           balanceAfter |-> Remaining(id)])
                    /\ procs'[p].result =
                          [success |-> TRUE,
                           remainingCredits |-> Remaining(id),
                           creditsUsed |-> users[id].apiCreditsUsed]]_vars

C7_Witness ==
    \E p \in DOMAIN procs :
       /\ procs[p].op = "consume"
       /\ Succeeded(p)
       /\ procs[p].result.remainingCredits = 99
       /\ procs[p].result.creditsUsed = 1
       /\ users[procs[p].id].apiCreditsTotal = 100
       /\ users[procs[p].id].apiCreditsUsed = 1
       /\ log = <<Tx(procs[p].id, -1, "consume", 99)>>

(* C8: addCredits on an existing account fails with 400 exactly when        *)
(* apiCreditsTotal + amount > 1000; it then leaves the counters and the log *)
(* as they are; a sum of exactly 1000 is accepted.                          *)
C8_LimitExceeded ==
    [][\A p \in DOMAIN procs :
          /\ (/\ Called(p, "add")
              /\ faults' = faults
              /\ AccountExists(procs'[p].id))
             => IF users[procs'[p].id].apiCreditsTotal + procs'[p].amount > MAX_CREDITS
                THEN /\ procs'[p].pc = "done"
                     /\ procs'[p].result = Failure(400)
                     /\ users' = users
                     /\ log' = log
                ELSE procs'[p].pc = "save"
          /\ (procs[p].op = "add" /\ procs[p].pc \in {"save", "log"} /\ procs'[p].pc = "done")
             => (procs'[p].result.success \/ procs'[p].result.statusCode # 400)
          /\ (procs[p].op = "add" /\ FailedWith(p, 400)) => Unchanged(p)]_vars

C8_Witness ==
    \E p, q \in DOMAIN procs :
       /\ procs[p].op = "add" /\ FailedWith(p, 400)
       /\ procs[q].op = "add" /\ Succeeded(q)
       /\ procs[q].id = procs[p].id
       /\ procs[q].result.totalCredits = MAX_CREDITS
       /\ users[procs[p].id].apiCreditsTotal = MAX_CREDITS

(* C9: an addCredits call executed alone on an existing account with        *)
(* apiCreditsTotal + amount <= 1000 raises apiCreditsTotal by exactly the   *)
(* amount, leaves apiCreditsUsed, appends one transaction (the amount, type *)
(* refill, balanceAfter = new total - used) and returns totalCredits = new  *)
(* total and remainingCredits = new total - used.                           *)
C9_AddAlone ==
    [][\A p \in DOMAIN procs :
          LET id == procs'[p].id
              amount == procs'[p].amount
          IN  /\ (/\ Called(p, "add")
                  /\ faults' = faults
                  /\ AccountExists(id)
                  /\ users[id].apiCreditsTotal + amount <= MAX_CREDITS)
                 => /\ procs'[p].pc = "save"
                    /\ users' = users
                    /\ log' = log
              /\ Moved(p, "add", "save", "log")
                 => /\ users' = [users EXCEPT ![id].apiCreditsTotal = @ + amount]
                    /\ log' = log
              /\ (Moved(p, "add", "log", "done") /\ faults' = faults)
                 => /\ users' = users
                    /\ log' = Append(log, [user |-> id, amount |-> amount,
                                           type |-> "refill",
                                           balanceAfter |-> Remaining(id)])
                    /\ procs'[p].result =
                          [success |-> TRUE,
                           totalCredits |-> users[id].apiCreditsTotal,
                           remainingCredits |-> Remaining(id)]]_vars

C9_Witness ==
    \E p \in DOMAIN procs :
       /\ procs[p].op = "add"
       /\ Succeeded(p)
       /\ procs[p].amount = 900
       /\ procs[p].result.totalCredits = 1000
       /\ procs[p].result.remainingCredits = 901
       /\ users[procs[p].id].apiCreditsTotal = 1000
       /\ users[procs[p].id].apiCreditsUsed = 99
       /\ log[Len(log)] = Tx(procs[p].id, 900, "refill", 901)

(* C10: addCredits and resetCredits called with an id of no account return  *)
(* 404, create no account, change no counter and append no transaction.     *)
C10_MissingAccountIs404 ==
    [][\A p \in DOMAIN procs :
          (/\ Called(p, "add") \/ Called(p, "reset")
           /\ faults' = faults
           /\ ~AccountExists(procs'[p].id))
          => /\ procs'[p].pc = "done"
             /\ procs'[p].result = Failure(404)
             /\ users' = users
             /\ log' = log]_vars

----------------------------------------------------------------------------
(* C11: a resetCredits call executed in isolation on an existing account    *)
(* sets apiCreditsUsed to 0 and leaves apiCreditsTotal unchanged, appends   *)
(* exactly one 'adjustment' transaction with amount = the previous          *)
(* apiCreditsUsed and balanceAfter = apiCreditsTotal, and returns           *)
(* previousUsed = the previous value, currentUsed = 0, remainingCredits =   *)
(* apiCreditsTotal, also when the previous value was already 0.             *)
C11_ResetAlone ==
    [][\A p \in DOMAIN procs :
          LET id == procs'[p].id
          IN  /\ (Called(p, "reset") /\ faults' = faults /\ CastOk(id) /\ AccountExists(id))
                 => /\ procs'[p].pc = "save"
                    /\ procs'[p].previousUsed = users[id].apiCreditsUsed
                    /\ users' = users
                    /\ log' = log
              /\ Moved(p, "reset", "save", "log")
                 => /\ users' = [users EXCEPT ![id].apiCreditsUsed = 0]
                    /\ log' = log
              /\ (Moved(p, "reset", "log", "done") /\ faults' = faults)
                 => /\ users' = users
                    /\ users[id].apiCreditsUsed = 0
                    /\ log' = Append(log, [user |-> id,
                                           amount |-> procs[p].previousUsed,
                                           type |-> "adjustment",
                                           balanceAfter |-> users[id].apiCreditsTotal])
                    /\ procs'[p].result =
                          [success |-> TRUE,
                           previousUsed |-> procs[p].previousUsed,
                           currentUsed |-> 0,
                           remainingCredits |-> users[id].apiCreditsTotal]]_vars

(* two resets of one account have returned: the first found 99 credits      *)
(* used, the second found 0                                                 *)
C11_Witness ==
    \E p, q \in DOMAIN procs :
       /\ procs[p].op = "reset" /\ Succeeded(p) /\ procs[p].result.previousUsed = 99
       /\ procs[q].op = "reset" /\ Succeeded(q) /\ procs[q].result.previousUsed = 0
       /\ procs[p].id = procs[q].id
       /\ users[procs[p].id].apiCreditsUsed = 0
       /\ Len(log) = Len(InitialLog) + 2

----------------------------------------------------------------------------
(* The transactions of account id in the log lg, by position: the rank of a *)
(* position is 1 for the newest transaction of the account, 2 for the one   *)
(* before it, and so on.                                                    *)

PositionsOf(lg, id) == {i \in DOMAIN lg : lg[i].user = id}

(* txs is the newest-first prefix of length n of the account's log *)
IsNewestPrefix(txs, lg, id, n) ==
    LET pos == PositionsOf(lg, id)
        rank == [i \in pos |-> Cardinality({m \in pos : m >= i})]
    IN  /\ Len(txs) = n
        /\ \A i \in pos : rank[i] <= n => txs[rank[i]] = lg[i]

GivenLimit(call) == IF call.limit = <<>> THEN DefaultHistoryLimit ELSE call.limit[1]

----------------------------------------------------------------------------
(* C14: getEndpointCreditCost is a pure lookup: for an identifier present   *)
(* in the static cost table it returns the table's cost, for every          *)
(* identifier not present in the table it returns 1; the result is always   *)
(* a positive integer and the call changes no state.                        *)
C14_CostLookup ==
    [][\A p \in DOMAIN procs :
          Called(p, "cost")
          => LET endpointPath == procs'[p].id
                 cost == procs'[p].result.cost
             IN  /\ endpointPath \in DOMAIN CostMap => cost = Num(CostMap[endpointPath])
                 /\ endpointPath \notin DOMAIN CostMap => cost = Num(1)
                 /\ cost.type = "number" /\ cost.value >= 1
                 /\ users' = users
                 /\ log' = log]_vars

----------------------------------------------------------------------------
(* C15: ledger operations on different accounts are independent: a step of  *)
(* a consumeCredits, addCredits or resetCredits call on account A never     *)
(* changes the counters of an account B # A and never appends a             *)
(* transaction referencing B, and the store call such a call is waiting for *)
(* is enabled whatever the other calls are doing (no shared lock).          *)
C15_AccountsIndependent ==
    /\ [][\A p \in DOMAIN procs :
             (procs'[p] # procs[p] /\ procs'[p].op \in LedgerOps)
             => LET A == procs'[p].id
                IN  /\ \A B \in DOMAIN users \ {A} : users'[B] = users[B]
                    /\ \/ log' = log
                       \/ /\ Len(log') = Len(log) + 1
                          /\ SubSeq(log', 1, Len(log)) = log
                          /\ log'[Len(log')].user = A]_vars
    /\ [](\A p \in DOMAIN procs :
             (procs[p].op \in LedgerOps /\ procs[p].pc \in {"save", "log"})
             => ENABLED LedgerStep(p))

(* two ledger calls on different accounts are in flight; the first has      *)
(* written its account, the account of the second is as it was              *)
C15_Witness ==
    \E p, q \in DOMAIN procs :
       /\ procs[p].op \in LedgerOps /\ procs[q].op \in LedgerOps
       /\ procs[p].id # procs[q].id
       /\ procs[p].pc = "log" /\ users[procs[p].id] # initial[procs[p].id]
       /\ procs[q].pc \in {"save", "log"} /\ users[procs[q].id] = initial[procs[q].id]

----------------------------------------------------------------------------
(* C16: after account creation, every change to an account's               *)
(* apiCreditsUsed or apiCreditsTotal is made by one of the ledger           *)
(* operations consumeCredits, addCredits or resetCredits: the step that     *)
(* changes the User collection is the save of a ledger call, never a write  *)
(* made by a route handler itself.                                          *)
C16_OnlyLedgerWrites ==
    [][users' # users
       => \E p \in DOMAIN procs :
             /\ procs[p].op \in LedgerOps
             /\ procs[p].pc = "save"
             /\ procs'[p].pc = "log"]_vars

----------------------------------------------------------------------------
(* C17: in every execution of POST /api/estimate-calories the              *)
(* generative-AI call is made only after consumeCredits has returned        *)
(* success for that same request (its transaction is in the log); when      *)
(* consumeCredits fails the handler answers with the failure's status code  *)
(* (429 for insufficient credits), makes no AI call and saves no            *)
(* FoodAnalysis.                                                            *)
C17_PaidActionAfterConsume ==
    [][\A p \in DOMAIN procs :
          LET id == procs[p].id
              before == procs[p]
              after == procs'[p]
          IN  /\ after.req.aiCalls # before.req.aiCalls
                 => /\ before.op = "estimate"
                    /\ before.result.success
                    /\ before.result.creditsUsed = before.doc.apiCreditsUsed
                    /\ \E i \in DOMAIN log :
                          /\ log[i].user = id
                          /\ log[i].type = "consume"
                          /\ log[i].balanceAfter = before.result.remainingCredits
              /\ after.req.analyses # before.req.analyses => before.req.aiCalls = 1
              /\ (/\ before.op = "estimate"
                  /\ before.pc \in {"consume", "save", "log"}
                  /\ after.pc = "done")
                 => /\ ~after.result.success
                    /\ after.req.status = after.result.statusCode
                    /\ after.req.status \in {429, 500}
                    /\ after.req.aiCalls = 0
                    /\ after.req.analyses = 0
                    /\ log' = log
              /\ (/\ before.op = "estimate"
                  /\ before.pc = "consume"
                  /\ after # before
                  /\ faults' = faults
                  /\ Remaining(id) < DefaultCost)
                 => /\ after.pc = "done"
                    /\ after.req.status = 429
              /\ (before.pc = "done" /\ before.op = "estimate") => after = before]_vars

(* both outcomes at once: one request was refused with 429 and made no AI   *)
(* call, another consumed a credit, made its AI call and saved its analysis *)
C17_Witness ==
    \E p, q \in DOMAIN procs :
       /\ procs[p].op = "estimate" /\ procs[p].pc = "done"
       /\ procs[p].req.status = 429 /\ procs[p].req.aiCalls = 0 /\ procs[p].req.analyses = 0
       /\ procs[q].op = "estimate" /\ procs[q].pc = "done"
       /\ procs[q].req.status = 200 /\ procs[q].req.aiCalls = 1 /\ procs[q].req.analyses = 1
       /\ procs[q].result.success

----------------------------------------------------------------------------
(* C18: the transaction log is append-only: a step leaves it as it is or    *)
(* adds one transaction at its end; a ledger operation appends nothing      *)
(* before its last step, one that returns success has appended exactly one  *)
(* transaction, and one that returns insufficient-credits (429), not-found  *)
(* (404) or limit-exceeded (400) has appended none.                         *)
C18_AppendOnly ==
    [][/\ \/ log' = log
          \/ /\ Len(log') = Len(log) + 1
             /\ SubSeq(log', 1, Len(log)) = log
       /\ \A p \in DOMAIN procs :
             (procs'[p] # procs[p] /\ procs'[p].op \in LedgerOps)
             => /\ procs'[p].pc \in {"save", "log"} => log' = log
                /\ (procs'[p].pc = "done" /\ procs'[p].result.success)
                   => /\ procs[p].pc = "log"
                      /\ Len(log') = Len(log) + 1
                      /\ log'[Len(log')].user = procs[p].id
                /\ (procs'[p].pc = "done" /\ ~procs'[p].result.success)
                   => log' = log
                /\ (/\ procs'[p].pc = "done"
                    /\ ~procs'[p].result.success
                    /\ procs'[p].result.statusCode \in {429, 404, 400})
                   => procs[p].pc = "idle"]_vars

(* one ledger call has returned success and one has been refused; the log   *)
(* has grown by one transaction                                             *)
C18_Witness ==
    \E p, q \in DOMAIN procs :
       /\ procs[p].op \in LedgerOps /\ Succeeded(p)
       /\ procs[q].op \in LedgerOps /\ procs[q].pc = "done"
       /\ ~procs[q].result.success /\ procs[q].result.statusCode \in {429, 404, 400}
       /\ Len(log) = Len(InitialLog) + 1
       /\ log[Len(log)].user = procs[p].id

----------------------------------------------------------------------------
(* C19: every account, whichever path creates it (password registration,    *)
(* Google OAuth strategy, iOS Google sign-in), starts with                  *)
(* apiCreditsTotal = 100 and apiCreditsUsed = 0 and with an empty           *)
(* transaction log.                                                         *)
C19_NewAccountDefaults ==
    [][\A id \in DOMAIN users :
          (~users[id].present /\ users'[id].present)
          => /\ users'[id].apiCreditsTotal = 100
             /\ users'[id].apiCreditsUsed = 0
             /\ \A i \in DOMAIN log' : log'[i].user # id
             /\ \E p \in DOMAIN procs :
                   procs[p].op \in CreateOps /\ procs[p].id = id /\ Succeeded(p)']_vars

(* the Google OAuth strategy has created account u3 and the account has     *)
(* then paid for one request                                                *)
C19_Witness ==
    \E p, q \in DOMAIN procs :
       /\ procs[p].op = "googleOAuth" /\ procs[p].id = "u3" /\ Succeeded(p)
       /\ ~initial["u3"].present /\ users["u3"].present
       /\ procs[q].op = "consume" /\ procs[q].id = "u3" /\ Succeeded(q)
       /\ users["u3"].apiCreditsUsed = 1

----------------------------------------------------------------------------
(* C20: a request to a protect-guarded route that carries in x-api-key the  *)
(* apiKey of an existing user (and no Bearer Authorization header) is       *)
(* authenticated: once protect has finished with it, req.user is that user  *)
(* and next() has been called, so the request can consume credits.          *)
C20_ApiKeyAuthenticates ==
    \A p \in DOMAIN procs :
       (/\ procs[p].op = "estimate"
        /\ procs[p].req.auth = "apikey"
        /\ AccountExists(procs[p].id)
        /\ procs[p].pc \notin {"idle", "fresh"})
       => /\ procs[p].req.next
          /\ procs[p].req.user.found
          /\ procs[p].req.status # 401

----------------------------------------------------------------------------
(* C21: every request to a protect-guarded route that carries no            *)
(* credentials, an invalid or expired JWT, or an API key matching no user   *)
(* is answered with HTTP status 401 and never reaches the route handler.    *)
Unauthenticated(call) ==
    \/ call.req.auth \in {"none", "badtoken"}
    \/ call.req.auth = "apikey" /\ ~initial[call.req.caller].present

C21_UnauthenticatedIs401 ==
    \A p \in DOMAIN procs :
       (procs[p].op = "estimate" /\ procs[p].pc = "done" /\ Unauthenticated(procs[p]))
       => /\ procs[p].req.answered
          /\ procs[p].req.status = 401
          /\ ~procs[p].req.next

----------------------------------------------------------------------------
(* C22: a request by an authenticated user whose isAdmin is false to an     *)
(* admin-only route is answered with HTTP status 403 ('Not authorized as an *)
(* admin'), and the route handler is not executed.                          *)
C22_NonAdminIs403 ==
    \A p \in DOMAIN procs :
       (/\ procs[p].op \in AdminRoutes
        /\ procs[p].pc = "done"
        /\ procs[p].req.next
        /\ ~procs[p].req.user.isAdmin)
       => /\ procs[p].req.answered
          /\ procs[p].req.status = 403
          /\ ~procs[p].result.success

(* C23: only a request whose caller is an administrator changes the credit  *)
(* counters of an account through the admin-only routes: every step that    *)
(* changes an account is taken by a request that passed protect with a      *)
(* user whose isAdmin is true.                                              *)
C23_OnlyAdminsChange ==
    [][users' # users =>
         \E p \in DOMAIN procs :
            /\ procs'[p] # procs[p]
            /\ procs[p].op \in AdminRoutes
            /\ procs[p].req.next
            /\ procs[p].req.user.isAdmin
            /\ initial[procs[p].req.caller].isAdmin]_vars

(* an administrator has granted credits and a plain user was turned away    *)
C23_Witness ==
    /\ \E p \in DOMAIN procs :
          /\ procs[p].op = "add" /\ procs[p].pc = "done"
          /\ procs[p].result.success
          /\ procs[p].req.user.isAdmin
    /\ \E q \in DOMAIN procs :
          /\ procs[q].op \in AdminRoutes /\ procs[q].pc = "done"
          /\ procs[q].req.next /\ ~procs[q].req.user.isAdmin
    /\ users["u1"].apiCreditsTotal > initial["u1"].apiCreditsTotal

(* the amounts the documentation calls missing or invalid: not there, not   *)
(* a number, zero or negative                                               *)
NotPositiveNumber(amount) ==
    \/ amount.type \notin {"number", "string"}
    \/ amount.value <= 0

(* C24: a request to add credits whose amount is missing, not numeric, zero *)
(* or negative is answered with HTTP status 400 and the ledger is not       *)
(* called.                                                                  *)
C24_InvalidAmountIs400 ==
    \A p \in DOMAIN procs :
       (/\ procs[p].op = "add"
        /\ procs[p].req.next
        /\ procs[p].req.user.isAdmin
        /\ NotPositiveNumber(procs[p].req.amount))
       => /\ procs[p].pc = "done"
          /\ procs[p].req.answered
          /\ procs[p].req.status = 400

(* C25: GET /api/credits/:userId/history for a userId that matches no       *)
(* account is answered with status 404 ('User not found'): the history      *)
(* operation fails with statusCode 404, which the route answers with.       *)
C25_HistoryOfNobodyIs404 ==
    \A p \in DOMAIN procs :
       (/\ procs[p].op = "history"
        /\ procs[p].pc = "done"
        /\ procs[p].limit # <<>>
        /\ ~AccountExists(procs[p].id))
       => FailedWith(p, 404)

(* the counters of the account as the store holds them *)
CurrentCredits(id) ==
    [used |-> users[id].apiCreditsUsed,
     total |-> users[id].apiCreditsTotal,
     remaining |-> Remaining(id)]

(* C26: when POST /api/estimate-calories answers 429 for insufficient       *)
(* credits, the credits object of the response body equals the counters     *)
(* consumeCredits read when it rejected the request, whatever other         *)
(* requests did to the account since the request was authenticated.         *)
C26_BodyShowsCurrentCredits ==
    [][\A p \in DOMAIN procs :
          (/\ At(p, "estimate", "consume")
           /\ procs'[p].pc = "done"
           /\ procs'[p].req.status = 429)
          => procs'[p].req.credits = CurrentCredits(procs[p].id)]_vars

(* C27: consumeCredits decides on the account state it reads itself, not on *)
(* the document the caller got at authentication: a request is refused for  *)
(* insufficient credits exactly when the account, as the store holds it at  *)
(* the consume, has fewer credits left than the cost.                       *)
C27_ConsumeReadsFresh ==
    [][\A p \in DOMAIN procs :
          (At(p, "estimate", "consume") /\ procs'[p] # procs[p] /\ faults' = faults)
          => /\ (procs'[p].pc = "done" /\ procs'[p].result = Failure(429))
                <=> Remaining(procs[p].id) < procs[p].amount
             /\ procs'[p].pc = "save" <=> Remaining(procs[p].id) >= procs[p].amount]_vars

(* a request that was authenticated when no credit was left has consumed    *)
(* one that was added afterwards                                            *)
C27_Witness ==
    \E p \in DOMAIN procs :
       /\ procs[p].op = "estimate"
       /\ procs[p].pc = "ai"
       /\ procs[p].result.success
       /\ procs[p].req.user.apiCreditsTotal - procs[p].req.user.apiCreditsUsed < procs[p].amount

(* the operation in slot p waits for a store call *)
InLedger(p) == procs[p].pc \in {"consume", "save", "log"}

(* C28: every invoked ledger operation eventually returns a result with a   *)
(* success flag, given that each store call eventually returns or fails:    *)
(* whatever is in flight, a state follows in which no operation waits for   *)
(* the store; a store failure or a missing account in consumeCredits yields *)
(* success = false with statusCode 500, never the 429 of insufficient       *)
(* credits.                                                                 *)
C28_LedgerReturns ==
    /\ []<>(\A p \in Procs : ~InLedger(p) /\ procs[p].result.success \in BOOLEAN)
    /\ [][\A p \in DOMAIN procs :
             (/\ At(p, "estimate", "consume")
              /\ procs'[p] # procs[p]
              /\ ~AccountExists(procs[p].id) \/ faults' # faults)
             => procs'[p].pc = "done" /\ procs'[p].result = Failure(500)]_vars

(* a consume has come back with 500 because the account was deleted after   *)
(* the request was authenticated                                            *)
C28_Witness ==
    \E p \in DOMAIN procs :
       /\ procs[p].op = "estimate"
       /\ procs[p].pc = "done"
       /\ procs[p].req.next
       /\ procs[p].result = Failure(500)
       /\ ~AccountExists(procs[p].id)
       /\ faults = 0

----------------------------------------------------------------------------
(* C29: for every account, in every reachable state under any interleaving  *)
(* of ledger operations, concurrent addCredits calls on the same account    *)
(* included, apiCreditsTotal <= 1000.                                       *)
C29_TotalWithinLimit ==
    \A id \in DOMAIN users : users[id].apiCreditsTotal <= MAX_CREDITS

(* two overlapping additions of 900 to the same account of 100 credits have *)
(* both succeeded, and the total is at the limit                            *)
C29_Witness ==
    \E p, q \in DOMAIN procs :
       /\ p # q
       /\ procs[p].op = "add" /\ procs[q].op = "add"
       /\ procs[p].id = procs[q].id
       /\ procs[p].amount = 900 /\ procs[q].amount = 900
       /\ Succeeded(p) /\ Succeeded(q)
       /\ users[procs[p].id].apiCreditsTotal = MAX_CREDITS

----------------------------------------------------------------------------
(* the generative-AI calls made by the requests in slots 1..n *)
RECURSIVE AiCallsUpTo(_)
AiCallsUpTo(n) == IF n = 0 THEN 0 ELSE procs[n].req.aiCalls + AiCallsUpTo(n - 1)

ConsumesLogged == Cardinality({i \in DOMAIN Appended : Appended[i].type = "consume"})

(* C30: in POST /api/estimate-calories the credit is charged before the AI  *)
(* call and never refunded: a request without a file is answered 400        *)
(* without consumeCredits being called; the AI call and the steps after it, *)
(* whatever their outcome, leave the accounts and the log as they are; the  *)
(* number of AI calls never exceeds the number of 'consume' transactions.   *)
C30_ChargedBeforeAiCall ==
    /\ [](\A p \in DOMAIN procs :
             (procs[p].op = "estimate" /\ procs[p].req.next /\ ~procs[p].req.file)
             => /\ procs[p].pc = "done"
                /\ procs[p].req.status = 400
                /\ procs[p].amount = 0
                /\ ~procs[p].result.success
                /\ procs[p].req.aiCalls = 0)
    /\ [](AiCallsUpTo(NumProcs) <= ConsumesLogged)
    /\ [][\A p \in DOMAIN procs :
             (/\ procs[p].op = "estimate"
              /\ procs[p].pc \in {"ai", "analysis"}
              /\ procs'[p] # procs[p])
             => /\ users' = users
                /\ log' = log
                /\ procs'[p].result = procs[p].result
                /\ \E i \in DOMAIN log' :
                      /\ log'[i].user = procs[p].id
                      /\ log'[i].type = "consume"
                      /\ log'[i].balanceAfter = procs[p].result.remainingCredits]_vars

(* a request was charged and its AI call failed: the credit stays used;     *)
(* another request, without a file, was answered 400                        *)
C30_Witness ==
    \E p, q \in DOMAIN procs :
       /\ procs[p].op = "estimate" /\ procs[p].pc = "done"
       /\ procs[p].req.aiCalls = 1 /\ procs[p].req.status = 500
       /\ procs[p].result.success
       /\ users[procs[p].id].apiCreditsUsed = initial[procs[p].id].apiCreditsUsed + procs[p].amount
       /\ procs[q].op = "estimate" /\ procs[q].pc = "done"
       /\ procs[q].req.next /\ ~procs[q].req.file
       /\ procs[q].req.status = 400

====
